---- MODULE Spec2Model ----
(***************************************************************************)
(* Opinion formation with in-group bias (model.py, create_network.py,      *)
(* batch_simulations.py): the simulation engine OpinionModel, its agents   *)
(* and the reporting interface save_batch.                                 *)
(*                                                                         *)
(* Numbers.  Python floats are modelled by exact rationals <<n, d>> with   *)
(* d > 0 and gcd(n, d) = 1; <<0, 0>> is NaN (the result of 0/0).  A        *)
(* numpy array over the belief space is a record [w, c]: integer weights   *)
(* w[1..NBeliefs] and a rational factor c, standing for the array          *)
(* w[i] * c.  A standard deviation is kept as its square.                  *)
(***************************************************************************)
EXTENDS Integers, Sequences, FiniteSets, TLC

\* ------------------------------------------------------------------ bounds
\* Number of bins of the belief space (n_beliefs, 200 in model.py:78).
NBeliefs == 5
\* Last checkpoint time of the long run (track_times[-1]).
LongHorizon == 23

\* --------------------------------------------------------------- rationals
NaN == <<0, 0>>
IsNaN(q) == q[2] = 0

Abs(a) == IF a < 0 THEN -a ELSE a

RECURSIVE GCD(_, _)
GCD(a, b) == IF b = 0 THEN Abs(a) ELSE GCD(b, a % b)

Rat(n, d) ==
  IF d = 0 THEN NaN
  ELSE LET g == GCD(Abs(n), Abs(d))
           s == IF d < 0 THEN -1 ELSE 1
       IN  <<(s * n) \div g, (s * d) \div g>>

\* The four operations cancel common factors before they multiply, which
\* keeps the intermediate integers small.
RatAdd(p, q) == IF IsNaN(p) \/ IsNaN(q) THEN NaN
                ELSE LET g == GCD(p[2], q[2])
                     IN  Rat(p[1] * (q[2] \div g) + q[1] * (p[2] \div g),
                             (p[2] \div g) * q[2])
RatNeg(p) == <<-p[1], p[2]>>
RatSub(p, q) == RatAdd(p, RatNeg(q))
RatMul(p, q) == IF IsNaN(p) \/ IsNaN(q) THEN NaN
                ELSE LET g1 == GCD(p[1], q[2])
                         g2 == GCD(q[1], p[2])
                     IN  Rat((p[1] \div g1) * (q[1] \div g2),
                             (p[2] \div g2) * (q[2] \div g1))
\* x / 0 with x = 0 is NaN; the model never divides a non-zero number by 0.
RatDiv(p, q) == IF IsNaN(p) \/ IsNaN(q) \/ q[1] = 0 THEN NaN
                ELSE RatMul(p, IF q[1] < 0 THEN <<-q[2], -q[1]>> ELSE <<q[2], q[1]>>)
RECURSIVE FracLess(_, _, _, _)
\* a/b < c/d for b, d > 0, by integer parts and then the reciprocals of the
\* remainders, so that no product is formed
FracLess(a, b, c, d) ==
  IF a \div b # c \div d THEN a \div b < c \div d
  ELSE IF c % d = 0 THEN FALSE
  ELSE IF a % b = 0 THEN TRUE
  ELSE FracLess(d, c % d, b, a % b)

\* Python's p < q: False when either side is NaN.
RatLess(p, q) == /\ ~IsNaN(p) /\ ~IsNaN(q)
                 /\ FracLess(p[1], p[2], q[1], q[2])
RatInt(n) == <<n, 1>>

RECURSIVE SumTo(_, _)
\* f[1] + ... + f[n]
SumTo(f, n) == IF n = 0 THEN 0 ELSE f[n] + SumTo(f, n - 1)

RECURSIVE GcdTo(_, _)
GcdTo(f, n) == IF n = 0 THEN 0 ELSE GCD(f[n], GcdTo(f, n - 1))

RECURSIVE Pow(_, _)
Pow(a, k) == IF k = 0 THEN 1 ELSE a * Pow(a, k - 1)

RECURSIVE RatSumTo(_, _)
RatSumTo(f, n) == IF n = 0 THEN RatInt(0) ELSE RatAdd(f[n], RatSumTo(f, n - 1))

\* ------------------------------------------------------------ belief space
Bins == 1..NBeliefs

\* model.py:79-80: bin centres -1 + (2i - 1)/n_beliefs; kept as the integer
\* numerators BinNum(i) over the common denominator NBeliefs.
BinNum(i) == 2 * i - 1 - NBeliefs

\* model.py:81: db = (1 - (-1)) / n_beliefs
Db == Rat(2, NBeliefs)

\* An array w[i] * c in canonical form: gcd of the weights 1, or all 0.
Arr(w, c) ==
  IF IsNaN(c) THEN [w |-> [i \in Bins |-> 0], c |-> NaN]
  ELSE LET g == GcdTo(w, NBeliefs)
       IN  IF g = 0 \/ c[1] = 0
           THEN [w |-> [i \in Bins |-> 0], c |-> RatInt(0)]
           ELSE [w |-> [i \in Bins |-> w[i] \div g], c |-> RatMul(c, RatInt(g))]

\* model.py:82: uniform = ones / (n_beliefs * db)
Uniform == Arr([i \in Bins |-> 1], RatDiv(RatInt(1), RatMul(RatInt(NBeliefs), Db)))

\* array.sum()
ArrSum(a) == RatMul(a.c, RatInt(SumTo(a.w, NBeliefs)))

\* array / scalar
ArrDiv(a, q) == Arr(a.w, RatDiv(a.c, q))

\* a * b, elementwise
ArrMul(a, b) == Arr([i \in Bins |-> a.w[i] * b.w[i]], RatMul(a.c, b.c))

\* s * a + t * b for scalars s, t
ArrLin(s, a, t, b) ==
  LET p == RatMul(s, a.c)
      q == RatMul(t, b.c)
  IN  IF IsNaN(p) \/ IsNaN(q) THEN Arr(a.w, NaN)
      ELSE Arr([i \in Bins |-> p[1] * a.w[i] * q[2] + q[1] * b.w[i] * p[2]],
               Rat(1, p[2] * q[2]))

\* x / (x.sum() * db): model.py:146, 279, 292
Normalise(x) == ArrDiv(x, RatMul(ArrSum(x), Db))

\* sys.float_info.epsilon = 2^-52.  Every rational the model reaches has a
\* denominator far below 2^52, so a non-negative sum is below epsilon exactly
\* when it is 0.
BelowEpsilon(q) == ~IsNaN(q) /\ q[1] <= 0

\* ------------------------------------------------- agent summary statistics
\* np.dot(op, belief_space ** k) for k = 1, 2
DotSpace(a, k) ==
  RatMul(a.c, Rat(SumTo([i \in Bins |-> a.w[i] * Pow(BinNum(i), k)], NBeliefs),
                  Pow(NBeliefs, k)))

\* model.py:234, 281, 294
MeanOp(op) == RatDiv(DotSpace(op, 1), ArrSum(op))

\* model.py:235, 282, 295, given the mean_op just computed
VarOp(op, mean) == RatSub(RatDiv(DotSpace(op, 2), ArrSum(op)), RatMul(mean, mean))

\* model.py:236, 283, 296: var ** 0.5 if var > 0 else sys.float_info.epsilon,
\* as the set of the values that sig can get.  The root is kept as its
\* square.  The rationals are the values without the rounding of the
\* doubles.  A variance that is positive without rounding is far above the
\* rounding and gives its root; a NaN is not above 0 and gives epsilon.  A
\* variance that is 0 without rounding (all the mass in one bin) is in the
\* doubles the difference of two roundings, np.dot(op, b ** 2) / op.sum()
\* and mean_op ** 2: for some doubles of the density it is above 0 and sig
\* is the root of that residue (kind "residue", some 1e-8), for others it
\* is 0 or below and sig is epsilon.  The double of the density is not in
\* the rational, so both are taken.
SigOp(var) ==
  IF IsNaN(var) THEN {[kind |-> "epsilon", sq |-> RatInt(0)]}
  ELSE IF RatLess(RatInt(0), var) THEN {[kind |-> "sqrt", sq |-> var]}
  ELSE {[kind |-> "residue", sq |-> RatInt(0)], [kind |-> "epsilon", sq |-> RatInt(0)]}

\* model.py:234-236, 281-283, 294-296: mean_op and the values that sig can
\* get for a density.  mean_op is the value without rounding; the double is
\* within a few units in the last place of it.
Summary(op) ==
  LET m == MeanOp(op) IN {[mean_op |-> m, sig |-> s] : s \in SigOp(VarOp(op, m))}

\* -------------------------------------------------------- diffusion matrix
\* dt * kappa / db^2 (model.py:101-107), as a rational <<p, q>>
HeatRatio(kappa) == RatDiv(kappa, RatMul(Db, Db))

\* model.py:103-108: the matrix A = diag(1 + 2r) + offdiag(-r), times q.
MatHeatEquation(kappa) ==
  LET r == HeatRatio(kappa)
  IN  [i \in Bins |-> [j \in Bins |->
         IF i = j THEN r[2] + 2 * r[1]
         ELSE IF Abs(i - j) = 1 THEN -r[1] ELSE 0]]

RECURSIVE Theta(_, _, _)
\* Leading principal minors of the tridiagonal matrix with diagonal a and
\* off-diagonal -p: theta(0) = 1, theta(1) = a,
\* theta(k) = a * theta(k-1) - p^2 * theta(k-2).
Theta(a, p, k) == IF k = 0 THEN 1
                  ELSE IF k = 1 THEN a
                  ELSE a * Theta(a, p, k - 1) - p * p * Theta(a, p, k - 2)

\* model.py:110: np.linalg.inv(mat_heat_equation), as the adjugate of q * A
\* (integer entries) and the factor q / det(q * A).
MatHeatEquInv(kappa) ==
  LET r == HeatRatio(kappa)
      a == r[2] + 2 * r[1]
      lo(i, j) == IF i < j THEN i ELSE j
      hi(i, j) == IF i < j THEN j ELSE i
  IN  [adj |-> [i \in Bins |-> [j \in Bins |->
                  Pow(r[1], Abs(i - j)) * Theta(a, r[1], lo(i, j) - 1)
                                        * Theta(a, r[1], NBeliefs - hi(i, j))]],
       c |-> Rat(r[2], Theta(a, r[1], NBeliefs))]

\* np.dot(matrix, op)
MatDot(m, op) ==
  Arr([i \in Bins |-> SumTo([j \in Bins |-> m.adj[i][j] * op.w[j]], NBeliefs)],
      RatMul(m.c, op.c))

\* ----------------------------------------------------------------- network
\* create_network.py:78-82 (and nx.watts_strogatz_graph with p = 0): a ring
\* of n nodes 0..n-1, each joined to its k // 2 next neighbours.
RingLattice(n, k) ==
  {{u, (u + j) % n} : u \in 0..(n - 1), j \in 1..(k \div 2)}

\* create_network.py:29
WhichBetweenGroupNodesToConnect(k_out) ==
  SubSeq(<<0, 1, -1, 2, -2, 3, -3, 4, -4>>, 1,
         IF k_out < 9 THEN k_out ELSE 9)

\* create_network.py:32-35: the node of group 2 that edgefrom is linked to
EdgeTo(n, edgefrom, i) ==
  LET g  == n \div 2
      e0 == edgefrom + g + i
      e1 == IF e0 >= n THEN e0 - g ELSE e0
  IN  IF e1 < g THEN e1 + g ELSE e1

\* A networkx Graph: its nodes in the order they were added, and its edges
EmptyGraph == [nodes |-> <<>>, edges |-> {}]

\* list(range(n))
NodeList(n) == [x \in 1..n |-> x - 1]

\* the nodes of a graph as a set
NodeSet(g) == {g.nodes[x] : x \in DOMAIN g.nodes}

\* Graph.add_node: a node that is there already keeps its place
AddNode(g, v) ==
  IF v \in NodeSet(g) THEN g ELSE [g EXCEPT !.nodes = Append(@, v)]

\* Graph.add_edge: the end points become nodes if they were not
AddEdge(g, u, v) ==
  [nodes |-> AddNode(AddNode(g, u), v).nodes, edges |-> g.edges \cup {{u, v}}]

\* Graph.remove_edge: the end points stay
RemoveEdge(g, u, v) == [g EXCEPT !.edges = @ \ {{u, v}}]

\* Graph.has_edge
HasEdge(g, u, v) == {u, v} \in g.edges

\* Graph.degree(u)
Degree(g, u) == Cardinality({e \in g.edges : u \in e})

\* nx.complete_graph(n)
CompleteGraph(n) ==
  [nodes |-> NodeList(n),
   edges |-> {{u, v} : u \in 0..(n - 1), v \in 0..(n - 1)} \ {{u} : u \in 0..(n - 1)}]

\* create_network.py:22: nx.relabel_nodes(G2, dict(zip(G2.nodes,
\* np.arange(len(G2.nodes)) + len(G1.nodes)))): the x-th node of G2 becomes
\* len(G1.nodes) + x
Relabel(g, len1) ==
  LET new(v) == len1 + (CHOOSE x \in DOMAIN g.nodes : g.nodes[x] = v) - 1
  IN  [nodes |-> [x \in DOMAIN g.nodes |-> len1 + x - 1],
       edges |-> {{new(v) : v \in e} : e \in g.edges}]

\* create_network.py:23-25: the graph G, its nodes held as a set (their
\* order is never read)
Union(g1, g2) ==
  [nodes |-> NodeSet(g1) \cup NodeSet(g2), edges |-> g1.edges \cup g2.edges]

\* create_network.py:36, 48: G.add_edge on the graph G
Link(g, u, v) == [nodes |-> g.nodes \cup {u, v}, edges |-> g.edges \cup {{u, v}}]

\* create_network.py:32-35 as written: the wrap uses len(G1.nodes), which is
\* the number of nodes G1 has, whatever n is
LinkTarget(n, len1, edgefrom, i) ==
  LET e0 == edgefrom + len1 + i
      e1 == IF e0 >= n THEN e0 - len1 ELSE e0
  IN  IF e1 < len1 THEN e1 + len1 ELSE e1

\* create_network.py:51-52: the social_identity attribute of the nodes of G.
\* The dict is keyed by position, 0 for the first len(G1.nodes) keys and 1
\* for the next len(G2.nodes); a key that is no node of G is passed over.
NodeGroups(g, g1, g2) ==
  [v \in g.nodes \cap 0..(Len(g1.nodes) + Len(g2.nodes) - 1) |->
     IF v < Len(g1.nodes) THEN 0 ELSE 1]

\* what create_withinAndBetweenGroup_network returns, the layout left out
Returned(g, g1, g2) == [edges |-> g.edges, groups |-> NodeGroups(g, g1, g2)]

\* The releases of networkx differ in the graph nx.watts_strogatz_graph starts
\* from: nx.Graph(), which gets its nodes from the ring edges only, or
\* empty_graph(n), which has the n nodes from the start.
Libs == {"Graph", "empty_graph"}

\* create_network.py:13-36 with both k_in and k_out even, k_in < n/2 and
\* p = 0 (no link is rewired): two ring lattices, the second relabelled to
\* n/2..n-1, and the between-group links, one set for each of the
\* len(G1.nodes) first node ids (line 30).  With k_in < 2 a ring has no
\* edge: started from nx.Graph() it has no node either, no link is made,
\* and the graph returned has neither nodes nor edges.  G.add_edge (line 36)
\* makes a node of an end point that was none: lines 33-34 wrap once, so
\* that with k_out > 2 and a small n the end point can be n or more, or
\* negative, or edgefrom itself (a self-loop, the edge {u}).
CreateNetwork(n, k_in, k_out, lib) ==
  LET g == n \div 2
      pattern == WhichBetweenGroupNodesToConnect(k_out)
      links == {{u, EdgeTo(n, u, pattern[x])} :
                  u \in 0..(g - 1), x \in DOMAIN pattern}
  IN  IF lib = "Graph" /\ k_in < 2
      THEN [nodes |-> {}, edges |-> {}]
      ELSE [nodes |-> 0..(n - 1) \cup UNION links,
            edges |->
              RingLattice(g, k_in)
                \cup {{e[1] + g, e[2] + g} : e \in
                        {<<u, (u + j) % g>> : u \in 0..(g - 1), j \in 1..(k_in \div 2)}}
                \cup links]

\* create_network.py:86-90 with p = 0: the graphs that the odd-degree part
\* can leave from node m on, one for each outcome of the coins of line 87
RECURSIVE OddEdges(_, _, _, _)
OddEdges(h, n, k, m) ==
  IF m >= n THEN {h}
  ELSE OddEdges(h, n, k, m + 1)
         \cup OddEdges(AddEdge(h, m, (m + k \div 2 + 1) % n), n, k, m + 1)

\* create_network.py:60-121 with p = 0 and k < n: the graphs that
\* watts_strogatz_graph_UnevenK(n, k, 0) can return.  The graph starts as
\* nx.Graph() (line 76), so a node is in it only once an edge is.
UnevenK(n, k) ==
  LET ring == [nodes |-> IF k \div 2 >= 1 THEN NodeList(n) ELSE <<>>,
               edges |-> RingLattice(n, k)]
  IN  IF k % 2 = 1 THEN OddEdges(ring, n, k, 0) ELSE {ring}

\* create_network.py:22-36, 51 with p = 0: G for the in-group graphs g1 and
\* g2 (not yet relabelled), and the number of keys of the dict of line 51
Joined(n, g1, g2, k_out) ==
  LET len1    == Len(g1.nodes)
      r2      == Relabel(g2, len1)
      pattern == WhichBetweenGroupNodesToConnect(k_out)
      links   == {{u, LinkTarget(n, len1, u, pattern[x])} :
                    u \in 0..(len1 - 1), x \in DOMAIN pattern}
  IN  [nodes |-> NodeSet(g1) \cup NodeSet(r2) \cup UNION links,
       edges |-> g1.edges \cup r2.edges \cup links,
       len1  |-> len1,
       keys  |-> len1 + Len(g2.nodes)]

\* create_network.py:13-54 with p = 0 and k_in < n/2: the graphs that the
\* generator can return, each with len(G1.nodes) and the number of keys of
\* the dict of line 51.  The even path returns one graph, the odd path one
\* for each outcome of the coins.
Networks(n, k_in, k_out, lib) ==
  IF k_in % 2 = 0 /\ k_out % 2 = 0
  THEN {LET G == CreateNetwork(n, k_in, k_out, lib)
        IN  [nodes |-> G.nodes, edges |-> G.edges,
             len1  |-> IF G.nodes = {} THEN 0 ELSE n \div 2,
             keys  |-> IF G.nodes = {} THEN 0 ELSE n]}
  ELSE {Joined(n, g1, g2, k_out) :
          g1 \in UnevenK(n \div 2, k_in), g2 \in UnevenK(n \div 2, k_in)}

\* model.py:245: list(G.neighbors(unique_id)); a node with a self-loop is
\* its own neighbour
Neighbors(G, i) == {j \in G.nodes : {i, j} \in G.edges}

\* The group that the claims give node i: group 0 for the first half of the
\* node ids, group 1 for the second
GroupOf(n, i) == IF i < n \div 2 THEN 0 ELSE 1

\* A Python value that is an int or a list of ints.
PyInt(v) == [kind |-> "int", v |-> <<v>>]
PyList(v, len) == [kind |-> "list", v |-> [x \in 1..len |-> v]]

\* model.py:126-128, 135: social_id_affiliations is {0: [0]*group_size,
\* 1: [1]*group_size}, keyed by the position of the group, and
\* set_node_attributes stores it on the nodes 0 and 1; every other node keeps
\* the int that create_network.py:51-52 gave it, 0 for the first
\* len(G1.nodes) keys and 1 for the next len(G2.nodes).
SocialIdentity(n, len1, i) ==
  IF i \in {0, 1} THEN PyList(i, n \div 2) ELSE PyInt(IF i < len1 THEN 0 ELSE 1)

\* create_network.py:51-52, model.py:128: the nodes that have the attribute
\* social_identity; set_node_attributes passes over a key that is no node
Attributed(nodes, keys) == nodes \cap (0..(keys - 1) \cup {0, 1})

\* model.py:134-150: the loop reads G.nodes[i]["social_identity"] for the
\* positions i = 0, 1, ... of the nodes and makes agent i; it ends in
\* KeyError at the first position that is no node or has no attribute
Made(nodes, keys) ==
  {i \in 0..(Cardinality(nodes) - 1) :
     \A j \in 0..i : j \in Attributed(nodes, keys)}

\* ---------------------------------------------------------- agent updates
\* model.py:270
Alpha(speaker_identity, self_identity, alpha_in, alpha_out) ==
  IF speaker_identity = self_identity THEN alpha_in ELSE alpha_out

\* model.py:271
PerceivedMessage(alpha, message) ==
  ArrLin(alpha, message, RatSub(RatInt(1), alpha), Uniform)

\* model.py:273-277: the posterior, or the old opinion when the posterior
\* has no mass
KeptPosterior(self_op, posterior_op) ==
  IF BelowEpsilon(ArrSum(posterior_op)) THEN self_op ELSE posterior_op

\* model.py:271-279
InteractionOp(self_op, message, alpha) ==
  Normalise(KeptPosterior(self_op, ArrMul(self_op, PerceivedMessage(alpha, message))))

\* model.py:291-292
NonInteractionOp(self_op, kappa) ==
  Normalise(MatDot(MatHeatEquInv(kappa), self_op))

\* ---------------------------------------------------- population statistics
\* np.mean over the agents 0..n-1
PopMean(m, n) == RatDiv(RatSumTo([i \in 1..n |-> m[i - 1]], n), RatInt(n))

\* np.std squared: the mean of the squared deviations from the mean
PopVar(m, n) ==
  LET mu == PopMean(m, n)
      dev(i) == RatSub(m[i], mu)
  IN  RatDiv(RatSumTo([i \in 1..n |-> RatMul(dev(i - 1), dev(i - 1))], n), RatInt(n))

\* A Python float holding a standard deviation, kept as its square.
PyStd(v) == [kind |-> "float", sq |-> v]

\* model.py:74: sigma_threshold_consensus = 0.01, as 1 / 100
SigmaThresholdDen == 100

\* model.py:201: std_mean_ops < sigma_threshold_consensus
BelowThreshold(std) ==
  RatLess(std.sq, Rat(1, SigmaThresholdDen * SigmaThresholdDen))

\* ------------------------------------------------------------------- state
VARIABLES
  params,          \* _params, agent_reporter and track_times (model.py:58-73)
  nbs,             \* Agent.nbs of every agent (model.py:245)
  social_identity, \* Agent.social_identity of every agent (model.py:230)
  op,              \* Agent.op: the belief density of every agent
  mean_op,         \* Agent.mean_op
  sig,             \* Agent.sig
  time,            \* OpinionModel.time
  std_mean_ops,    \* OpinionModel.std_mean_ops
  avg_mean_ops,    \* OpinionModel.avg_mean_ops: keys str(time)
  all_mean_ops,    \* OpinionModel.all_mean_ops
  all_sigs,        \* OpinionModel.all_sigs, present only with agent_reporter
  all_std_mean_op, \* OpinionModel.all_std_mean_op
  stored_times,    \* OpinionModel.stored_times, once it is assigned
  consensus_time,  \* OpinionModel.consensus_time
  consensus_mean,  \* OpinionModel.consensus_mean
  pc,              \* where the caller of the model is
  exc,             \* the exception each call ended in, or "none"
  t,               \* simulation(): the loop variable
  time_cons,       \* simulation(): the list time_cons, kept as its first
                   \* element and its length (nothing else of it is read)
  update_order,    \* step(): the permutation drawn
  idx,             \* step(): position in update_order
  frame,           \* Agent.step(): the locals of the call in progress
  printed,         \* stdout: connectivity warnings printed, per agent id
  tick_start,      \* history: every agent's op when the current tick began
  updates,         \* history: calls of Agent.step() per agent in the tick
  hist             \* history of the run: the ticks made, how many had the
                   \* dispersion of line 178 below the threshold, the time
                   \* of the first of them, and whether a tick at or above
                   \* the threshold came after it

\* create_withinAndBetweenGroup_network (create_network.py:13-54), followed
\* statement by statement
VARIABLES
  gargs,           \* the arguments n, k, k_in, k_out, rewire_prob
  gpc,             \* where the generator is
  grp,             \* which in-group graph is being built: 1 or 2
  Gin,             \* the graph G of the in-group generator last entered
  G1,              \* create_network.py:16-21: G1
  G2,              \* create_network.py:22: G2, relabelled
  GG,              \* create_network.py:23-25: G
  loc,             \* the loop variables: j, u (create_network.py:107-111),
                   \* m (:86), edgefrom, i, edgeto (:30-32)
  prev,            \* the graph an earlier call with the same arguments
                   \* returned, once there is one
  seeded           \* what the draws from the generators seeded with seed
                   \* and seed + 100 gave the first call, for each in-group
                   \* graph: the steps of the odd-degree part and the graph
                   \* returned; and whether the call in progress has drawn
                   \* from the seeded generator as the first call did

genVars   == <<gargs, gpc, grp, Gin, G1, G2, GG, loc, prev, seeded>>
netVars   == <<params, nbs, social_identity, genVars>>
agentVars == <<op, mean_op, sig>>
dataVars  == <<avg_mean_ops, all_mean_ops, all_sigs, all_std_mean_op, stored_times>>
consVars  == <<consensus_time, consensus_mean>>
loopVars  == <<t, time_cons>>
stepVars  == <<update_order, idx>>
vars == <<netVars, agentVars, time, std_mean_ops, dataVars, consVars, pc, exc,
          loopVars, stepVars, frame, printed, tick_start, updates, hist>>

\* model.py:132-150: the agents of the schedule, one per node of G
Agents == DOMAIN op

\* len(self.schedule)
NSchedule == Cardinality(Agents)

\* An attribute that has not been assigned, and one that has.
Unset == [set |-> FALSE, val |-> <<>>]
Attr(v) == [set |-> TRUE, val |-> v]

\* d[k] = v on a dict
DictSet(d, k, v) == [x \in (DOMAIN d) \cup {k} |-> IF x = k THEN v ELSE d[x]]

\* model.py:184-194: observe().  std_mean_ops is the float that line 158 or
\* line 178 assigned, so the item assignment on line 188 raises TypeError;
\* all_ops is assigned nowhere, so line 192 would raise AttributeError.
Observe(avg, std, sigs, agent_reporter, now, means, n) ==
  LET avg1 == DictSet(avg, now, PopMean(means, n))
  IN  IF std.kind # "dict"
      THEN [avg_mean_ops |-> avg1, std_mean_ops |-> std, all_sigs |-> sigs,
            exc |-> "TypeError"]
      ELSE IF agent_reporter
      THEN [avg_mean_ops |-> avg1,
            std_mean_ops |-> DictSet(std, now, PyStd(PopVar(means, n))),
            all_sigs |-> sigs, exc |-> "AttributeError"]
      ELSE [avg_mean_ops |-> avg1,
            std_mean_ops |-> DictSet(std, now, PyStd(PopVar(means, n))),
            all_sigs |-> sigs, exc |-> "none"]

\* ------------------------------------------------------------ configurations
\* model.py:139-146: op = stats.norm(loc = mu_0, scale = sig_op_0).pdf(
\* belief_space), with mu_0 drawn in (-1, 1) and sig_op_0 the same for all
\* agents, then op / (op.sum() * db).  In float arithmetic a pdf value below
\* the smallest positive float is 0.0, which happens about 38.6 sig_op_0
\* away from mu_0.  The raw densities below are those with weights 0 and 1.

\* The pdf is positive and equal in the bins a..b and 0.0 in the others.
Indicator(a, b) == [i \in Bins |-> IF a <= i /\ i <= b THEN 1 ELSE 0]

\* The pdf is 0.0 in every bin: line 146 then divides 0.0 by 0.0.
NoMass == [i \in Bins |-> 0]

\* sig_op_0 below 1/80 of the bin width: mu_0 lies within reach of one bin
\* centre, or of none.
PointPdfs == {Indicator(b, b) : b \in Bins} \cup {NoMass}

\* sig_op_0 between 1/77 and 1/39 of the bin width: mu_0 on a bin centre
\* reaches that bin only, mu_0 midway between two centres reaches both.
NarrowPdfs == {Indicator(b, b) : b \in Bins}
                \cup {Indicator(b, b + 1) : b \in 1..(NBeliefs - 1)}

\* The same sig_op_0 with mu_0 between two centres, nearer to the upper one
\* by sig_op_0^2 * ln(32) / (bin width): the pdf of the upper bin is 32
\* times that of the lower.
Leaning(b) == [i \in Bins |-> IF i = b THEN 1 ELSE IF i = b + 1 THEN 32 ELSE 0]

\* sig_op_0 so large that the pdf is the same in every bin.
FlatPdfs == {Indicator(1, NBeliefs)}

\* The same choice S of raw densities for each of n agents, and a choice a
\* for agent 0 with a choice b for agent 1
Each(n, S) == [i \in 0..(n - 1) |-> S]
Pair(a, b) == [i \in 0..1 |-> IF i = 0 THEN a ELSE b]

\* Every assignment of one of its raw densities to each agent
Draws(pdfs) ==
  {raw \in [DOMAIN pdfs -> UNION {pdfs[i] : i \in DOMAIN pdfs}] :
     \A i \in DOMAIN pdfs : raw[i] \in pdfs[i]}

Half == Rat(1, 2)

\* The arguments of a run.  pdfs stands for sig_op_0 and the draws of mu_0
\* followed: for each agent, raw densities that line 145 can give it, all
\* for one sig_op_0; lib is the release of networkx installed.
Config(n, k_in, k_out, a_in, a_out, f, kappa, reporter, times, pdfs, lib) ==
  [n_agents |-> n, k |-> k_in + k_out, k_in |-> k_in, k_out |-> k_out,
   alpha_in |-> a_in, alpha_out |-> a_out, communication_frequency |-> f,
   kappa |-> kappa, agent_reporter |-> reporter, track_times |-> times,
   pdfs |-> pdfs, lib |-> lib]

\* The runs explored: a long run of two linked agents without diffusion
\* and with transparent filters, one on one bin, the other on that bin and
\* perhaps its neighbour until it hears the first; one tick of two linked
\* agents with diffusion; one tick with a partial out-group filter;
\* one tick with a transparent filter and densities that may be disjoint;
\* one tick of two triangles; a run of unlinked agents; a run with no tick;
\* one tick of agents whose initial pdf may have no mass; and one tick of
\* four agents with odd degrees, whose in-group graphs the coins of
\* create_network.py:87 decide.
Configs ==
  {Config(2, 0, 2, RatInt(1), RatInt(1), Half, RatInt(0), r, <<0, LongHorizon>>,
          Pair({Indicator(3, 3)}, {Indicator(3, 3), Indicator(2, 3), Leaning(2)}), lib) :
     r \in BOOLEAN, lib \in Libs}
  \cup {Config(2, 0, 2, Half, RatInt(1), Half, RatMul(Db, Db), r, <<0, 1, 3>>,
               Each(2, {Indicator(1, 1), Indicator(2, 2), Indicator(3, 3)}), lib) :
          r \in BOOLEAN, lib \in Libs}
  \cup {Config(2, 0, 2, RatInt(1), Half, RatInt(1), RatInt(0), FALSE, <<0, 1, 3>>,
               Each(2, NarrowPdfs), lib) : lib \in Libs}
  \cup {Config(2, 0, 2, Half, RatInt(1), Half, RatInt(0), FALSE, <<0, 1, 3>>,
               Each(2, NarrowPdfs), lib) : lib \in Libs}
  \cup {Config(6, 2, 0, RatInt(1), RatInt(0), RatInt(1), RatInt(0), TRUE, <<0, 1>>,
               Each(6, {Indicator(2, 3)}), lib) : lib \in Libs}
  \cup {Config(2, 0, 0, Half, Half, RatInt(1), RatMul(Db, Db), r, <<0, 3>>,
               Each(2, {Indicator(2, 3)}), lib) : r \in BOOLEAN, lib \in Libs}
  \cup {Config(2, 0, 2, Half, Half, Half, RatInt(0), r, <<0>>,
               Each(2, FlatPdfs), lib) : r \in BOOLEAN, lib \in Libs}
  \cup {Config(2, 0, 2, RatInt(1), RatInt(1), Half, RatMul(Db, Db), FALSE, <<0, 1>>,
               Each(2, PointPdfs), lib) : lib \in Libs}
  \cup {Config(4, 1, 1, RatInt(1), RatInt(1), Half, RatInt(0), FALSE, <<0, 1>>,
               Each(4, {Indicator(3, 3)}), "empty_graph")}

\* model.py:204: len(time_cons) > 20
ConsensusTicks == 20

NoFrame == [agent |-> -1, branch |-> "none", speaker |-> -1, alpha |-> NaN,
            message |-> Uniform]

\* The generator has returned and nothing of it is left but its result,
\* which the constructor holds in nbs and social_identity.
GenIdle ==
  /\ gargs = <<>>
  /\ gpc = "returned"
  /\ grp = 0
  /\ Gin = <<>>
  /\ G1 = <<>>
  /\ G2 = <<>>
  /\ GG = <<>>
  /\ loc = <<>>
  /\ prev = <<>>
  /\ seeded = <<>>

\* A float attribute that has not been assigned.
NoStd == [kind |-> "unset", sq |-> NaN]

NoHist == [ticks |-> 0, below |-> 0, first |-> -1, gap |-> FALSE]

\* ------------------------------------------------------------ construction
\* batch_simulations.py:78: perform_one_run is about to call the constructor
\* with the arguments cfg; no attribute of the model is assigned yet (the
\* variables of the numbers and the NaN defaults hold 0 and NaN).
Init ==
  \E cfg \in Configs :
    /\ params = cfg
    /\ nbs = <<>>
    /\ social_identity = <<>>
    /\ op = <<>>
    /\ mean_op = <<>>
    /\ sig = <<>>
    /\ time = 0
    /\ all_mean_ops = <<>>
    /\ all_std_mean_op = <<>>
    /\ avg_mean_ops = <<>>
    /\ std_mean_ops = NoStd
    /\ all_sigs = Unset
    /\ stored_times = Unset
    /\ consensus_time = NaN
    /\ consensus_mean = NaN
    /\ pc = "start"
    /\ exc = [init |-> "none", simulation |-> "none", save_batch |-> "none"]
    /\ t = 0
    /\ time_cons = [first |-> -1, len |-> 0]
    /\ update_order = <<>>
    /\ idx = 0
    /\ frame = NoFrame
    /\ printed = <<>>
    /\ tick_start = <<>>
    /\ updates = <<>>
    /\ hist = NoHist
    /\ GenIdle

\* nx.adjacency_matrix(self.G) (model.py:127) on a graph without nodes: the
\* library raises NetworkXError.
AdjacencyOutcomes(G) == IF G.nodes = {} THEN {"NetworkXError"} ELSE {"none"}

\* model.py:132-150: the summaries that Agent.__init__ can give the agents
\* made, one of Summary for each
Summaries(made, op0) ==
  {s \in [made -> UNION {Summary(op0[i]) : i \in made}] :
     \A i \in made : s[i] \in Summary(op0[i])}

\* OpinionModel.__init__ (model.py:58-169) and Agent.__init__ (model.py:227-
\* 245).  The call of observe() on line 167 raises, so line 168 is not
\* reached and stored_times is never assigned; the exception leaves
\* perform_one_run, which holds no model then.  The attributes assigned
\* before the exception are kept in the variables.
Construct ==
  /\ pc = "start"
  /\ \E raw \in Draws(params.pdfs),
        G \in Networks(params.n_agents, params.k_in, params.k_out, params.lib) :
       LET n     == params.n_agents
           made  == Made(G.nodes, G.keys)
           c     == Cardinality(made)
           op0   == [i \in made |-> Normalise(Arr(raw[i], RatInt(1)))]
       IN  \E adj \in AdjacencyOutcomes(G), sum0 \in Summaries(made, op0) :
           LET mean0 == [i \in made |-> sum0[i].mean_op]
               sig0  == [i \in made |-> sum0[i].sig]
               std0  == PyStd(PopVar(mean0, c))
               sigs0 == IF params.agent_reporter THEN Attr(DictSet(<<>>, 0, sig0)) ELSE Unset
               obs   == Observe(DictSet(<<>>, 0, PopMean(mean0, c)), std0, sigs0,
                                params.agent_reporter, 0, mean0, c)
           IN
             IF adj # "none"
             THEN /\ exc' = [exc EXCEPT !.init = adj]
                  /\ UNCHANGED <<nbs, social_identity, agentVars, all_mean_ops,
                                 all_std_mean_op, avg_mean_ops, std_mean_ops,
                                 all_sigs, stored_times, printed, tick_start,
                                 updates>>
             ELSE /\ nbs' = [i \in made |-> Neighbors(G, i)]
                  /\ social_identity' = [i \in made |-> SocialIdentity(n, G.len1, i)]
                  /\ op' = op0
                  /\ mean_op' = mean0
                  /\ sig' = sig0
                  /\ printed' = [i \in made |-> 0]
                  /\ tick_start' = op0
                  /\ updates' = [i \in made |-> 0]
                  /\ IF Cardinality(made) < Cardinality(G.nodes)
                     THEN /\ exc' = [exc EXCEPT !.init = "KeyError"]
                          /\ UNCHANGED <<all_mean_ops, all_std_mean_op,
                                         avg_mean_ops, std_mean_ops, all_sigs,
                                         stored_times>>
                     ELSE /\ all_mean_ops' = DictSet(<<>>, 0, mean0)
                          /\ all_std_mean_op' = DictSet(<<>>, 0, std0)
                          /\ avg_mean_ops' = obs.avg_mean_ops
                          /\ std_mean_ops' = obs.std_mean_ops
                          /\ all_sigs' = obs.all_sigs
                          /\ stored_times' = IF obs.exc = "none" THEN Attr(<<0>>) ELSE Unset
                          /\ exc' = [exc EXCEPT !.init = obs.exc]
  /\ pc' = "constructed"
  /\ UNCHANGED <<params, genVars, time, consVars, loopVars, stepVars, frame, hist>>

\* batch_simulations.py:78-80: perform_one_run.  simulation() (line 79) and
\* save_batch (line 80) follow the constructor only when it returns, which
\* it does for no arguments, so that a run of the program ends with the
\* constructor's exception.
Next == Construct

Spec == Init /\ [][Next]_vars

\* --------------------------------------------------------------- simulation
\* The methods of OpinionModel and save_batch are called by perform_one_run
\* only, behind a constructor that raises; what they do is followed below
\* for a caller that catches the constructor's exception and goes on with
\* the model as the constructor left it (m = OpinionModel.__new__(
\* OpinionModel), m.__init__(...) in a try block, then m.simulation() and
\* save_batch(m)).  The specification of these calls is Methods.
Horizon == params.track_times[Len(params.track_times)]

\* model.py:166: self.time is assigned on line 166, which a constructor
\* that ended on line 127 or 135 has not reached
TimeAssigned == exc.init \notin {"NetworkXError", "KeyError"}

\* model.py:196-199: simulation() is entered.  The method has no condition
\* on how the constructor ended.
SimulationStart ==
  /\ pc = "constructed"
  /\ pc' = "loop"
  /\ t' = 0
  /\ time_cons' = [first |-> -1, len |-> 0]
  /\ UNCHANGED <<netVars, agentVars, time, std_mean_ops, dataVars, consVars, exc,
                 stepVars, frame, printed, tick_start, updates, hist>>

\* model.py:199, 212: range(track_times[-1]) is exhausted
LoopExit ==
  /\ pc = "loop"
  /\ t >= Horizon
  /\ pc' = "returned"
  /\ UNCHANGED <<netVars, agentVars, time, std_mean_ops, dataVars, consVars, exc,
                 loopVars, stepVars, frame, printed, tick_start, updates, hist>>

\* np.random.choice(schedule, size = n_agents, replace = False)
UpdateOrders ==
  {s \in [1..params.n_agents -> Agents] :
     \A a, b \in 1..params.n_agents : a # b => s[a] # s[b]}

\* model.py:173: what reading self.schedule and drawing n_agents of its
\* members without replacement ends in: the schedule was never assigned
\* when the constructor ended on line 127, and is too short when G has
\* fewer than n_agents nodes.
ScheduleError ==
  IF exc.init = "NetworkXError" THEN "AttributeError"
  ELSE IF NSchedule < params.n_agents THEN "ValueError"
  ELSE "none"

\* model.py:173: step() draws the update order
StepBegin ==
  /\ pc = "loop"
  /\ t < Horizon
  /\ IF ScheduleError # "none"
     THEN /\ exc' = [exc EXCEPT !.simulation = ScheduleError]
          /\ pc' = "raised"
          /\ UNCHANGED <<stepVars, tick_start, updates>>
     ELSE /\ \E order \in UpdateOrders : update_order' = order
          /\ idx' = 1
          /\ pc' = "agents"
          /\ tick_start' = op
          /\ updates' = [i \in Agents |-> 0]
          /\ exc' = exc
  /\ UNCHANGED <<netVars, agentVars, time, std_mean_ops, dataVars, consVars,
                 loopVars, frame, printed, hist>>

\* model.py:252: the outcomes np.random.random() < communication_frequency
\* can have, the draw being in [0, 1)
CommunicationDraws ==
  {b \in BOOLEAN : IF b THEN RatLess(RatInt(0), params.communication_frequency)
                        ELSE RatLess(params.communication_frequency, RatInt(1))}

\* The warning printed at every time: the condition of line 255 left out
WarnsAlways(now) == TRUE

\* model.py:255: the warning is printed only while the model's time is 1
WarnsNow(now) == now = 1

\* model.py:268: the speaker's current opinion
Message(speaker_id) == op[speaker_id]

\* model.py:254-257: the communication branch of an agent without neighbours
IsolatedStep(ag) ==
  {[op |-> op[ag], mean_op |-> mean_op[ag], sig |-> sig[ag],
    warn |-> WarnsNow(time),
    frame |-> [NoFrame EXCEPT !.agent = ag, !.branch = "isolated"]]}

\* model.py:266: self.model.schedule[speaker_id].  The schedule is a list,
\* agent i at position i; a node id that is negative counts from the end,
\* and one outside the list raises IndexError (-1 here).
ScheduleIndex(speaker_id) ==
  IF speaker_id >= NSchedule \/ speaker_id < 0 - NSchedule THEN -1
  ELSE IF speaker_id < 0 THEN speaker_id + NSchedule
  ELSE speaker_id

\* model.py:263-284: update_opinion_in_interaction
UpdateOpinionInInteraction(ag, speaker_id) ==
  LET speaker == ScheduleIndex(speaker_id)
      alpha == Alpha(social_identity[speaker], social_identity[ag],
                     params.alpha_in, params.alpha_out)
      new   == InteractionOp(op[ag], Message(speaker), alpha)
  IN  {[op |-> new, mean_op |-> stats.mean_op, sig |-> stats.sig, warn |-> FALSE,
        frame |-> [agent |-> ag, branch |-> "interaction", speaker |-> speaker,
                   alpha |-> alpha, message |-> Message(speaker)]] :
         stats \in Summary(new)}

\* model.py:286-297: update_opinion_in_non_interaction
UpdateOpinionInNonInteraction(ag) ==
  LET new == NonInteractionOp(op[ag], params.kappa)
  IN  {[op |-> new, mean_op |-> stats.mean_op, sig |-> stats.sig, warn |-> FALSE,
        frame |-> [NoFrame EXCEPT !.agent = ag, !.branch = "diffusion"]] :
         stats \in Summary(new)}

\* model.py:248-261: what Agent.step() of agent ag can end with, the draws
\* made
AgentStepResult(ag, communicate, speaker_id) ==
  IF communicate
  THEN IF nbs[ag] = {} THEN IsolatedStep(ag)
       ELSE UpdateOpinionInInteraction(ag, speaker_id)
  ELSE UpdateOpinionInNonInteraction(ag)

\* model.py:252-266: the exception that Agent.step() ends in, with the
\* draws made: line 255 reads the model's time, line 266 indexes the
\* schedule
AgentStepError(ag, communicate, speaker_id) ==
  IF ~communicate THEN "none"
  ELSE IF nbs[ag] = {} THEN IF TimeAssigned THEN "none" ELSE "AttributeError"
  ELSE IF ScheduleIndex(speaker_id) = -1 THEN "IndexError"
  ELSE "none"

\* model.py:174-175: the next agent of update_order takes its step
AgentStep ==
  /\ pc = "agents"
  /\ idx <= params.n_agents
  /\ \E communicate \in CommunicationDraws :
       \E speaker_id \in (IF communicate /\ nbs[update_order[idx]] # {}
                          THEN nbs[update_order[idx]] ELSE {-1}) :
         \E err \in {AgentStepError(update_order[idx], communicate, speaker_id)} :
           IF err # "none"
           THEN /\ exc' = [exc EXCEPT !.simulation = err]
                /\ pc' = "raised"
                /\ UNCHANGED <<agentVars, printed, frame, idx, updates>>
           ELSE \E r \in AgentStepResult(update_order[idx], communicate, speaker_id) :
                  /\ op' = [op EXCEPT ![update_order[idx]] = r.op]
                  /\ mean_op' = [mean_op EXCEPT ![update_order[idx]] = r.mean_op]
                  /\ sig' = [sig EXCEPT ![update_order[idx]] = r.sig]
                  /\ printed' = IF r.warn
                                THEN [printed EXCEPT ![update_order[idx]] = @ + 1]
                                ELSE printed
                  /\ frame' = r.frame
                  /\ idx' = idx + 1
                  /\ updates' = [updates EXCEPT ![update_order[idx]] = @ + 1]
                  /\ UNCHANGED <<pc, exc>>
  /\ UNCHANGED <<netVars, time, std_mean_ops, dataVars, consVars, loopVars,
                 update_order, tick_start, hist>>

\* model.py:179: self.time in self.track_times
IsCheckpoint(now) == \E x \in DOMAIN params.track_times : params.track_times[x] = now

\* The history after a tick that ended at time now
HistAfter(h, now, below) ==
  [ticks |-> h.ticks + 1,
   below |-> IF below THEN h.below + 1 ELSE h.below,
   first |-> IF below /\ h.below = 0 THEN now ELSE h.first,
   gap   |-> h.gap \/ (~below /\ h.below > 0)]

\* model.py:176-182: the rest of step(): the clock (line 176 reads it, an
\* AttributeError when it was never assigned), the dispersion, and the
\* observation at a checkpoint.  The locals of step() end with it.
StepEnd ==
  /\ pc = "agents"
  /\ idx > params.n_agents
  /\ IF ~TimeAssigned
     THEN /\ exc' = [exc EXCEPT !.simulation = "AttributeError"]
          /\ pc' = "raised"
          /\ UNCHANGED <<time, hist, avg_mean_ops, std_mean_ops, all_sigs,
                         stored_times>>
     ELSE \E std \in {PyStd(PopVar(mean_op, NSchedule))} :
          /\ time' = time + 1
          /\ hist' = HistAfter(hist, time + 1, BelowThreshold(std))
          /\ IF IsCheckpoint(time + 1)
             THEN \E obs \in {Observe(avg_mean_ops, std, all_sigs, params.agent_reporter,
                                      time + 1, mean_op, NSchedule)} :
                    /\ avg_mean_ops' = obs.avg_mean_ops
                    /\ std_mean_ops' = obs.std_mean_ops
                    /\ all_sigs' = obs.all_sigs
                    /\ IF obs.exc # "none"
                       THEN /\ exc' = [exc EXCEPT !.simulation = obs.exc]
                            /\ pc' = "raised"
                            /\ stored_times' = stored_times
                       ELSE IF stored_times.set
                       THEN /\ stored_times' = Attr(Append(stored_times.val, time + 1))
                            /\ pc' = "stepped"
                            /\ exc' = exc
                       ELSE /\ exc' = [exc EXCEPT !.simulation = "AttributeError"]
                            /\ pc' = "raised"
                            /\ stored_times' = stored_times
             ELSE /\ std_mean_ops' = std
                  /\ pc' = "stepped"
                  /\ UNCHANGED <<avg_mean_ops, all_sigs, stored_times, exc>>
  /\ update_order' = <<>>
  /\ idx' = 0
  /\ frame' = NoFrame
  /\ tick_start' = op
  /\ UNCHANGED <<netVars, agentVars, all_mean_ops, all_std_mean_op, consVars,
                 loopVars, printed, updates>>

\* model.py:204
ConsensusReached(cons) == cons.len > ConsensusTicks

\* model.py:201-203: time_cons.append(t) when the dispersion is below the
\* threshold
TimeConsAfter(cons, std, tick) ==
  IF BelowThreshold(std)
  THEN [first |-> IF cons.len = 0 THEN tick ELSE cons.first, len |-> cons.len + 1]
  ELSE cons

\* model.py:201-211: the loop body of simulation() after step()
Bookkeeping ==
  /\ pc = "stepped"
  /\ \E cons \in {TimeConsAfter(time_cons, std_mean_ops, t)} :
       /\ time_cons' = cons
       /\ IF ConsensusReached(cons)
          THEN /\ consensus_time' = RatInt(cons.first)
               /\ consensus_mean' = PopMean(mean_op, NSchedule)
               /\ IF ~params.agent_reporter
                  THEN pc' = "returned" /\ t' = t
                  ELSE pc' = "loop" /\ t' = t + 1
          ELSE /\ UNCHANGED consVars
               /\ pc' = "loop"
               /\ t' = t + 1
  /\ UNCHANGED <<netVars, agentVars, time, std_mean_ops, dataVars, exc, stepVars,
                 frame, printed, tick_start, updates, hist>>

\* batch_simulations.py:16-43: save_batch(m) after simulation() returned.
\* Line 19 reads m.stored_times, which was never assigned; with it assigned,
\* line 20 would index the float std_mean_ops, and line 31 would look up
\* all_mean_ops, which holds the key "0" only.
SaveBatchResult ==
  IF ~stored_times.set THEN "AttributeError"
  ELSE IF \E x \in DOMAIN stored_times.val : stored_times.val[x] \notin DOMAIN avg_mean_ops
  THEN "KeyError"
  ELSE IF std_mean_ops.kind # "dict" THEN "IndexError"
  ELSE IF params.agent_reporter
          /\ \E x \in DOMAIN stored_times.val :
               stored_times.val[x] \notin DOMAIN all_mean_ops
  THEN "KeyError"
  ELSE "none"

\* batch_simulations.py:16-43: save_batch(m) is called once simulation()
\* has returned
SaveBatch ==
  /\ pc = "returned"
  /\ pc' = "saved"
  /\ exc' = [exc EXCEPT !.save_batch = SaveBatchResult]
  /\ UNCHANGED <<netVars, agentVars, time, std_mean_ops, dataVars, consVars,
                 loopVars, stepVars, frame, printed, tick_start, updates, hist>>

MethodsNext ==
  \/ Construct
  \/ SimulationStart
  \/ StepBegin
  \/ AgentStep
  \/ StepEnd
  \/ Bookkeeping
  \/ LoopExit
  \/ SaveBatch

Methods == Init /\ [][MethodsNext]_vars

\* ------------------------------------------------------------------ claims
\* No tick is in progress: the run has not begun, is between two passes of
\* the loop, or has ended by return or by an exception.
BetweenTicks == pc \notin {"agents", "stepped"}

\* simulation() has ended, by return or by an exception.
Ended == pc \in {"returned", "raised", "saved"}

\* The last step taken was a call of Agent.step().
AgentStepped == pc = "agents" /\ frame.branch # "none"

\* C1: construction records the observation of time 0 and every step that
\* reaches a checkpoint records one and appends the time to stored_times, so
\* every stored time has a mean and a dispersion that save_batch can read
\* back, and neither construction, nor a step, nor save_batch ends in an
\* exception.
C1_ObservationsRecorded ==
  pc # "start" =>
    /\ exc.init = "none"
    /\ exc.simulation = "none"
    /\ exc.save_batch = "none"
    /\ stored_times.set
    /\ std_mean_ops.kind = "dict"
    /\ \A x \in DOMAIN stored_times.val : stored_times.val[x] \in DOMAIN avg_mean_ops

\* C2: between the ticks of a run consensus_time is NaN exactly as long as
\* fewer than 21 ticks with the dispersion below the threshold have
\* accumulated, contiguous or not, and once it is set it never changes.
C2_ConsensusAfter21Ticks ==
  /\ [](BetweenTicks => (IsNaN(consensus_time) <=> hist.below <= ConsensusTicks))
  /\ [][~IsNaN(consensus_time) => consensus_time' = consensus_time]_vars

\* C3: a recorded consensus_time is the value the model's clock had right
\* after the first tick whose dispersion was below the threshold.
C3_ConsensusTimeOnModelClock ==
  ~IsNaN(consensus_time) => consensus_time = RatInt(hist.first)

\* C4: consensus_mean is the population mean of the agents' means at the
\* step that first sets consensus_time, and no later step changes it.
C4_ConsensusMeanFixed ==
  [][/\ (IsNaN(consensus_time) /\ ~IsNaN(consensus_time')) =>
          consensus_mean' = PopMean(mean_op', NSchedule)
     /\ ~IsNaN(consensus_time) => consensus_mean' = consensus_mean]_vars

\* C5: when simulation() has ended, then without agent_reporter and with
\* consensus recorded no tick followed the one that recorded it, and
\* otherwise exactly track_times[-1] ticks were made and the clock reads
\* track_times[-1].
C5_TicksOfTheRun ==
  Ended =>
    IF ~params.agent_reporter /\ ~IsNaN(consensus_time)
    THEN hist.ticks = time /\ hist.below = ConsensusTicks + 1
    ELSE hist.ticks = Horizon /\ time = Horizon

\* C6: in every interaction the blending weight is alpha_in when listener
\* and speaker are in the same half of the node ids and alpha_out when they
\* are not, for every agent.
C6_AlphaByGroup ==
  (AgentStepped /\ frame.branch = "interaction") =>
    frame.alpha = (IF GroupOf(params.n_agents, frame.agent)
                        = GroupOf(params.n_agents, frame.speaker)
                   THEN params.alpha_in ELSE params.alpha_out)

\* C7: in every call of step() the update order is a permutation of the
\* n_agents agents, every one of them has been stepped once when its turn
\* has passed and not before, all n_agents have been stepped once when the
\* call ends, and a listener hears a speaker stepped earlier in the tick
\* with its updated density and any other speaker with its density from the
\* start of the tick.
C7_OncePerTickSequentially ==
  /\ pc = "agents" =>
       /\ Len(update_order) = params.n_agents
       /\ {update_order[j] : j \in 1..params.n_agents} = 0..(params.n_agents - 1)
       /\ \A ag \in 0..(params.n_agents - 1) :
            /\ ag \in Agents
            /\ updates[ag] = IF \E j \in 1..(idx - 1) : update_order[j] = ag
                             THEN 1 ELSE 0
  /\ pc \in {"stepped", "raised"} =>
       \A ag \in 0..(params.n_agents - 1) : ag \in Agents /\ updates[ag] = 1
  /\ (AgentStepped /\ frame.branch = "interaction") =>
       frame.message = IF updates[frame.speaker] = 1 THEN op[frame.speaker]
                       ELSE tick_start[frame.speaker]

\* C7, the sequential part: in a tick whose order is not the order of the
\* ids, a listener has heard a speaker that an earlier step of the same tick
\* had changed.
C7_HeardUpdatedSpeaker ==
  /\ AgentStepped
  /\ frame.branch = "interaction"
  /\ update_order[1] # 0
  /\ updates[frame.speaker] = 1
  /\ op[frame.speaker] # tick_start[frame.speaker]
  /\ frame.message = op[frame.speaker]

\* C8: every agent's density has no negative weight and sum(weights) * db
\* is 1, in every state from its initialisation on.
C8_DensityNormalised ==
  \A ag \in Agents :
    /\ ~IsNaN(op[ag].c)
    /\ \A i \in Bins : op[ag].w[i] * op[ag].c[1] >= 0
    /\ RatMul(ArrSum(op[ag]), Db) = RatInt(1)

\* The posterior of listener ag for a message heard with weight alpha has no
\* mass.
Degenerate(ag, alpha, message) ==
  BelowEpsilon(ArrSum(ArrMul(op[ag], PerceivedMessage(alpha, message))))

\* C9: an interaction whose posterior has no mass leaves the listener's
\* density, mean and dispersion as they were, and the density and the mean
\* it leaves hold no NaN.  (Lines 279-283 normalise the density kept and
\* compute mean_op and sig anew, so that the sig of a density with all its
\* mass in one bin is decided by the rounding once more.)
C9_DegeneratePosteriorKeepsPrior ==
  [][(/\ pc = "agents"
      /\ AgentStepped'
      /\ idx' = idx + 1
      /\ frame'.branch = "interaction"
      /\ Degenerate(frame'.agent, frame'.alpha, frame'.message))
     => (/\ op' = op /\ mean_op' = mean_op /\ sig' = sig
         /\ ~IsNaN(op'[frame'.agent].c)
         /\ ~IsNaN(mean_op'[frame'.agent]))]_vars

\* C9 witness: with alpha = 1 a listener has heard a speaker whose density
\* shares no bin with its own.
C9_DisjointSupports ==
  /\ AgentStepped
  /\ frame.branch = "interaction"
  /\ frame.alpha = RatInt(1)
  /\ \A i \in Bins : op[frame.agent].w[i] = 0 \/ frame.message.w[i] = 0
  /\ op[frame.agent] = tick_start[frame.agent]

\* C10: the communication branch of an agent without neighbours changes no
\* agent's density, mean or dispersion and draws no speaker; it prints the
\* warning exactly when the clock reads 1, and no agent's warning is printed
\* twice.
C10_IsolatedAgentNoOp ==
  /\ [](\A ag \in Agents : printed[ag] <= 1)
  /\ [][(/\ pc = "agents"
         /\ AgentStepped'
         /\ idx' = idx + 1
         /\ frame'.branch = "isolated")
        => (/\ op' = op /\ mean_op' = mean_op /\ sig' = sig
            /\ frame'.speaker = -1
            /\ printed' = IF time = 1
                          THEN [printed EXCEPT ![frame'.agent] = @ + 1]
                          ELSE printed)]_vars

\* C10 witness: an agent without neighbours has taken the communication
\* branch at a time other than 1, its warning printed once before.
C10_IsolatedAfterWarning ==
  /\ AgentStepped
  /\ frame.branch = "isolated"
  /\ nbs[frame.agent] = {}
  /\ time = 2
  /\ printed[frame.agent] = 1

\* ======================================================== network generator
\* create_withinAndBetweenGroup_network and watts_strogatz_graph_UnevenK
\* (create_network.py), called from OpinionModel.__init__ (model.py:116-125).
\* The seed is not a variable: what it fixes is said where the draws are made.

\* The outcomes that random() < thr can have, the draw being in [0, 1)
\* (create_network.py:38, 42, 87, 91, 112)
Lt(thr) ==
  {b \in BOOLEAN : IF b THEN RatLess(RatInt(0), thr) ELSE RatLess(thr, RatInt(1))}

\* create_network.py:17-21 and model.py:118: int(n/2)
GroupSize == gargs.n_agents \div 2

\* create_network.py:16: the branch taken
EvenPath == gargs.k_in % 2 = 0 /\ gargs.k_out % 2 = 0

NoLoc == [j |-> 0, u |-> 0, m |-> 0, edgefrom |-> 0, at |-> 0, edgeto |-> 0]

\* The generator's state as one record, and its assignment
Cur == [gpc |-> gpc, grp |-> grp, Gin |-> Gin, G1 |-> G1, G2 |-> G2,
        GG |-> GG, loc |-> loc, seeded |-> seeded]

simVars == <<params, nbs, social_identity, agentVars, time, std_mean_ops,
             dataVars, consVars, pc, exc, loopVars, stepVars, frame, printed,
             tick_start, updates, hist>>

Set(s) ==
  /\ gpc' = s.gpc
  /\ grp' = s.grp
  /\ Gin' = s.Gin
  /\ G1' = s.G1
  /\ G2' = s.G2
  /\ GG' = s.GG
  /\ loc' = s.loc
  /\ seeded' = s.seeded
  /\ UNCHANGED <<gargs, prev, simVars>>

\* an exception leaves the generator and the constructor
Raise(s, e) == [s EXCEPT !.gpc = e]

\* create_network.py:29: the offsets of the links of one node
Pattern == WhichBetweenGroupNodesToConnect(gargs.k_out)

\* create_network.py:30-31: the next link to make, or lines 51-54 when the
\* loops are over
LinkAt(s, edgefrom, at) ==
  IF at <= Len(Pattern)
  THEN [s EXCEPT !.gpc = "link", !.loc = [NoLoc EXCEPT !.edgefrom = edgefrom, !.at = at]]
  ELSE IF edgefrom + 1 < Len(s.G1.nodes) /\ Len(Pattern) > 0
       THEN [s EXCEPT !.gpc = "link",
                      !.loc = [NoLoc EXCEPT !.edgefrom = edgefrom + 1, !.at = 1]]
       ELSE [s EXCEPT !.gpc = "done", !.loc = NoLoc]

StartLinks(s) ==
  IF Len(s.G1.nodes) = 0 THEN [s EXCEPT !.gpc = "done", !.loc = NoLoc]
  ELSE LinkAt(s, 0, 1)

AfterLink(s) == LinkAt(s, s.loc.edgefrom, s.loc.at + 1)

\* The first of the two calls is in progress
FirstCall == prev = <<>>

\* create_network.py:17-25: the in-group generator has returned h; the next
\* one is seeded anew (line 74, seed = seed + 100)
Finished(s, h) ==
  LET s1 == IF FirstCall THEN [s EXCEPT !.seeded.fin[s.grp] = h] ELSE s
  IN  IF s.grp = 1
      THEN [s1 EXCEPT !.G1 = h, !.grp = 2, !.gpc = "ingroup", !.Gin = h,
                      !.loc = NoLoc, !.seeded.aligned = TRUE]
      ELSE LET g2 == Relabel(h, Len(s.G1.nodes))
           IN  StartLinks([s1 EXCEPT !.G2 = g2, !.GG = Union(s.G1, g2),
                                     !.Gin = h, !.loc = NoLoc])

\* create_network.py:107-111: the next ring edge to consider, or the return
RewireAt(s, h, j, u) ==
  IF j > gargs.k_in \div 2 THEN Finished(s, h)
  ELSE IF u >= GroupSize THEN
         IF j + 1 > gargs.k_in \div 2 THEN Finished(s, h)
         ELSE [s EXCEPT !.Gin = h, !.gpc = "rewire",
                        !.loc = [NoLoc EXCEPT !.j = j + 1, !.u = 0]]
       ELSE [s EXCEPT !.Gin = h, !.gpc = "rewire",
                      !.loc = [NoLoc EXCEPT !.j = j, !.u = u]]

\* create_network.py:107-120 (and the rewiring of the library's
\* watts_strogatz_graph): every draw is from the seeded generator, so a
\* second call that has drawn from it as the first did returns the graph
\* that the first returned
StartRewire(s, h) ==
  IF ~FirstCall /\ s.seeded.aligned THEN Finished(s, s.seeded.fin[s.grp])
  ELSE RewireAt(s, h, 1, 0)

AfterRewire(s, h) == RewireAt(s, h, s.loc.j, s.loc.u + 1)

\* create_network.py:87-101: what the first call's draws of lines 87 and 91
\* were at a node of the odd-degree part, and the graph they left
Noted(s, coin, rew, h) ==
  IF FirstCall
  THEN [s EXCEPT !.seeded.odd[s.grp] = Append(@, [coin |-> coin, rew |-> rew, after |-> h])]
  ELSE s

\* numpy's draw of line 91 differed from the first call's: the draws from
\* the random module are no longer the first call's
Shifted(s) == [s EXCEPT !.seeded.aligned = FALSE]

\* create_network.py:86: the next node of the odd-degree part
AfterOdd(s, h) ==
  IF s.loc.m + 1 < GroupSize
  THEN [s EXCEPT !.Gin = h, !.gpc = "odd", !.loc = [NoLoc EXCEPT !.m = s.loc.m + 1]]
  ELSE StartRewire(s, h)

\* create_network.py:16-21: one in-group graph is begun.
\* Odd path (watts_strogatz_graph_UnevenK, lines 71-82): k >= n raises; the
\* graph starts as nx.Graph(), so a node is in it only once an edge is.
\* Even path (nx.watts_strogatz_graph, a library function): k > n raises and
\* k = n returns the complete graph; the start graph is nx.Graph() in some
\* releases of the library and empty_graph(n) in others, which gargs.lib
\* says.
InGroup(s) ==
  LET n    == GroupSize
      k    == gargs.k_in
      ring == RingLattice(n, k)
  IN  IF ~EvenPath
      THEN IF k >= n THEN Raise(s, "NetworkXError")
           ELSE LET h == [nodes |-> IF k \div 2 >= 1 THEN NodeList(n) ELSE <<>>,
                          edges |-> ring]
                IN  IF k % 2 = 1
                    THEN [s EXCEPT !.Gin = h, !.gpc = "odd", !.loc = NoLoc]
                    ELSE StartRewire(s, h)
      ELSE IF k > n THEN Raise(s, "NetworkXError")
           ELSE IF k = n THEN Finished(s, CompleteGraph(n))
           ELSE StartRewire(s, [nodes |-> IF k \div 2 >= 1 \/ gargs.lib = "empty_graph"
                                          THEN NodeList(n) ELSE <<>>,
                                edges |-> ring])

\* model.py:116-117 and create_network.py:14: the assertions
NetAsserts ==
  /\ gpc = "construct"
  /\ IF gargs.k_out + gargs.k_in # gargs.k \/ gargs.n_agents % 2 # 0
     THEN Set(Raise(Cur, "AssertionError"))
     ELSE Set([Cur EXCEPT !.gpc = "ingroup", !.grp = 1])

\* create_network.py:16-21, 71-82
InGroupStart ==
  /\ gpc = "ingroup"
  /\ Set(InGroup(Cur))

\* create_network.py:86-101: node m of the odd-degree part.  The coin of line
\* 87 and the choice of line 94 are drawn from the random module, which line
\* 74 seeded; the draw of line 91 is numpy's.  In a second call the random
\* module gives what it gave the first, as long as numpy's draws have
\* decided alike whether line 94 is reached.
OddStep ==
  /\ gpc = "odd"
  /\ LET n         == GroupSize
         m         == loc.m
         oddtarget == (m + gargs.k_in \div 2 + 1) % n
         h1        == AddEdge(Gin, m, oddtarget)
         again     == ~FirstCall /\ seeded.aligned
         first     == seeded.odd[grp][m + 1]
     IN  \E coin \in Lt(Half), rew \in Lt(gargs.p), w \in 0..(n - 1) :
           /\ again => coin = first.coin
           /\ IF ~coin THEN Set(AfterOdd(Noted(Cur, FALSE, FALSE, Gin), Gin))
              ELSE IF again /\ rew = first.rew THEN Set(AfterOdd(Cur, first.after))
              ELSE LET s == IF again THEN Shifted(Cur) ELSE Cur
                   IN  IF ~rew THEN Set(AfterOdd(Noted(s, TRUE, FALSE, h1), h1))
                       ELSE IF w = m \/ HasEdge(h1, m, w)
                            THEN Set([s EXCEPT !.Gin = h1, !.gpc = "oddloop"])
                            ELSE LET h2 == AddEdge(RemoveEdge(h1, m, oddtarget), m, w)
                                 IN  Set(AfterOdd(Noted(s, TRUE, TRUE, h2), h2))

\* create_network.py:96-101: one pass of the retry loop of the odd edge
OddRetry ==
  /\ gpc = "oddloop"
  /\ LET n         == GroupSize
         m         == loc.m
         oddtarget == (m + gargs.k_in \div 2 + 1) % n
     IN  \E w \in 0..(n - 1) :
           IF Degree(Gin, m) >= n - 1 THEN Set(AfterOdd(Noted(Cur, TRUE, TRUE, Gin), Gin))
           ELSE IF w = m \/ HasEdge(Gin, m, w) THEN Set(Cur)
           ELSE LET h2 == AddEdge(RemoveEdge(Gin, m, oddtarget), m, w)
                IN  Set(AfterOdd(Noted(Cur, TRUE, TRUE, h2), h2))

\* create_network.py:111-120: the ring edge (u, v) of distance j.  In the
\* odd path both draws are the random module's; in the even path they are
\* those of the library's own generator, seeded with seed.
RewireStep ==
  /\ gpc = "rewire"
  /\ LET n == GroupSize
         u == loc.u
         v == (u + loc.j) % n
     IN  \E rew \in Lt(gargs.p), w \in 0..(n - 1) :
           IF ~rew THEN Set(AfterRewire(Cur, Gin))
           ELSE IF w = u \/ HasEdge(Gin, u, w)
                THEN Set([Cur EXCEPT !.gpc = "rewireloop"])
                ELSE Set(AfterRewire(Cur, AddEdge(RemoveEdge(Gin, u, v), u, w)))

\* create_network.py:115-120: one pass of the retry loop of a ring edge
RewireRetry ==
  /\ gpc = "rewireloop"
  /\ LET n == GroupSize
         u == loc.u
         v == (u + loc.j) % n
     IN  \E w \in 0..(n - 1) :
           IF Degree(Gin, u) >= n - 1 THEN Set(AfterRewire(Cur, Gin))
           ELSE IF w = u \/ HasEdge(Gin, u, w) THEN Set(Cur)
           ELSE Set(AfterRewire(Cur, AddEdge(RemoveEdge(Gin, u, v), u, w)))

\* create_network.py:32-39: one link is made, and removed again if numpy's
\* draw says so
LinkStep ==
  /\ gpc = "link"
  /\ LET edgefrom == loc.edgefrom
         edgeto   == LinkTarget(gargs.n_agents, Len(G1.nodes), edgefrom, Pattern[loc.at])
         g1       == Link(GG, edgefrom, edgeto)
     IN  \E rew \in Lt(gargs.p) :
           IF ~rew THEN Set(AfterLink([Cur EXCEPT !.GG = g1]))
           ELSE Set([Cur EXCEPT !.GG = RemoveEdge(g1, edgefrom, edgeto),
                                !.gpc = "linkloop", !.loc.edgeto = edgeto])

\* create_network.py:40-50: one pass of the retry loop of a link.  All its
\* draws are numpy's; np.random.choice raises ValueError on an empty
\* sequence.
LinkRetry ==
  /\ gpc = "linkloop"
  /\ \E side \in Lt(Half) :
       LET pool == IF side THEN G2.nodes ELSE G1.nodes
       IN  IF pool = <<>> THEN Set(Raise(Cur, "ValueError"))
           ELSE \E x \in DOMAIN pool :
                  LET edgefromNew == IF side THEN loc.edgefrom ELSE pool[x]
                      edgetoNew   == IF side THEN pool[x] ELSE loc.edgeto
                  IN  IF edgefromNew # edgetoNew /\ ~HasEdge(GG, edgefromNew, edgetoNew)
                      THEN Set(AfterLink([Cur EXCEPT !.GG = Link(GG, edgefromNew, edgetoNew)]))
                      ELSE Set(Cur)

\* The arguments of one construction.  lib is the start graph of the
\* library's watts_strogatz_graph, see InGroup.
NetConfig(n_agents, k, k_in, k_out, p, lib) ==
  [n_agents |-> n_agents, k |-> k, k_in |-> k_in, k_out |-> k_out, p |-> p,
   lib |-> lib]

NetConfigs ==
  {NetConfig(n, k, k_in, k_out, RatInt(0), lib) :
     n \in 2..6, k \in 0..4, k_in \in 0..3, k_out \in 0..3, lib \in Libs}
  \cup {NetConfig(20, 12, 2, 10, RatInt(0), "empty_graph")}
  \cup {NetConfig(4, 2, 1, 1, p, lib) : p \in {Half, RatInt(1)}, lib \in Libs}
  \cup {NetConfig(4, 2, 0, 2, Half, "empty_graph")}
  \cup {NetConfig(6, 2, 1, 1, Half, "empty_graph")}
  \cup {NetConfig(6, 3, 2, 1, Half, "empty_graph")}
  \cup {NetConfig(8, 2, 2, 0, Half, "empty_graph")}
  \cup {NetConfig(8, 3, 3, 0, Half, "empty_graph")}

\* The model object does not exist before the generator has returned.
SimIdle ==
  /\ params = <<>> /\ nbs = <<>> /\ social_identity = <<>>
  /\ op = <<>> /\ mean_op = <<>> /\ sig = <<>>
  /\ time = 0 /\ std_mean_ops = <<>>
  /\ avg_mean_ops = <<>> /\ all_mean_ops = <<>> /\ all_sigs = <<>>
  /\ all_std_mean_op = <<>> /\ stored_times = <<>>
  /\ consensus_time = <<>> /\ consensus_mean = <<>>
  /\ pc = "network" /\ exc = <<>>
  /\ t = 0 /\ time_cons = <<>>
  /\ update_order = <<>> /\ idx = 0
  /\ frame = <<>> /\ printed = <<>> /\ tick_start = <<>> /\ updates = <<>>
  /\ hist = <<>>

\* Nothing is drawn yet
NoSeeded == [odd |-> <<<<>>, <<>>>>, fin |-> <<EmptyGraph, EmptyGraph>>,
             aligned |-> TRUE]

\* The generator is about to be called with one of the arguments C
NetInitOf(C) ==
  /\ gargs \in C
  /\ gpc = "construct"
  /\ grp = 0
  /\ Gin = EmptyGraph
  /\ G1 = EmptyGraph
  /\ G2 = EmptyGraph
  /\ GG = [nodes |-> {}, edges |-> {}]
  /\ loc = NoLoc
  /\ prev = <<>>
  /\ seeded = NoSeeded
  /\ SimIdle

\* model.py:113-116: the constructor is about to build the network
NetInit == NetInitOf(NetConfigs)

NetNext ==
  \/ NetAsserts
  \/ InGroupStart
  \/ OddStep
  \/ OddRetry
  \/ RewireStep
  \/ RewireRetry
  \/ LinkStep
  \/ LinkRetry

NetSpec == NetInit /\ [][NetNext]_vars

\* The draws of a retry loop are fair: a pass that can leave the loop is
\* not put off for ever (a value of positive probability is drawn in the
\* end).
NetFair ==
  /\ NetSpec
  /\ WF_vars(OddRetry)
  /\ WF_vars(RewireRetry)
  /\ WF_vars(LinkRetry)

\* create_network.py:13-54: the function has returned and is called again
\* with the same five arguments, numpy's generator being in whatever state.
\* The assertion of line 14 holds as it did, and the call is at line 16;
\* lines 17-21 seed the in-group generators as the first call did.
CallAgain ==
  /\ gpc = "done"
  /\ FirstCall
  /\ prev' = Returned(GG, G1, G2)
  /\ gpc' = "ingroup"
  /\ grp' = 1
  /\ Gin' = EmptyGraph
  /\ G1' = EmptyGraph
  /\ G2' = EmptyGraph
  /\ GG' = [nodes |-> {}, edges |-> {}]
  /\ loc' = NoLoc
  /\ seeded' = [seeded EXCEPT !.aligned = TRUE]
  /\ UNCHANGED <<gargs, simVars>>

TwoCallsNext ==
  \/ NetNext
  \/ CallAgain

\* The arguments of the calls that are made twice
TwiceConfigs ==
  {NetConfig(n, k, k_in, k_out, RatInt(0), lib) :
     n \in 2..6, k \in 0..4, k_in \in 0..3, k_out \in 0..3, lib \in Libs}
  \cup {NetConfig(4, 2, 1, 1, p, lib) : p \in {Half, RatInt(1)}, lib \in Libs}
  \cup {NetConfig(4, 2, 0, 2, Half, "empty_graph")}
  \cup {NetConfig(6, 1, 1, 0, Half, "empty_graph")}
  \cup {NetConfig(6, 2, 2, 0, Half, "empty_graph")}

TwoCalls == NetInitOf(TwiceConfigs) /\ [][TwoCallsNext]_vars

\* ------------------------------------------------------------------ claims
\* The configurations that C11 calls valid: even n_agents, k_in + k_out
\* equal to k, and k_in < n_agents/2.  This is the claim's condition; what
\* the code rejects is in NetAsserts and InGroup.
ValidConfiguration ==
  /\ gargs.n_agents % 2 = 0
  /\ gargs.k_in + gargs.k_out = gargs.k
  /\ 2 * gargs.k_in < gargs.n_agents

\* model.py:126-150: the generator has returned, and the constructor has
\* made an agent: line 127 has not raised (G has a node) and position 0 is
\* a node with the attribute social_identity (line 135)
AgentsCreated ==
  /\ gpc = "done"
  /\ AdjacencyOutcomes(GG) = {"none"}
  /\ Made(GG.nodes, Len(G1.nodes) + Len(G2.nodes)) # {}

\* C11: a configuration with odd n_agents, with k_in + k_out different from
\* k, or with k_in >= n_agents/2 never gets as far as the creation of the
\* agents: the constructor has raised before.
C11_InvalidConfigurationRejected == AgentsCreated => ValidConfiguration

\* create_network.py:54: the second of two calls has returned
SecondReturned == prev # <<>> /\ gpc = "done"

\* C12: the second of two calls with the same (n, k_in, k_out, rewire_prob,
\* seed) returns the edge set and the group assignment that the first
\* returned, whatever numpy's process-wide generator held at either call.
C12_SameGraphForSameArguments ==
  SecondReturned => Returned(GG, G1, G2) = prev

\* The x-th offset of the pattern 0, +1, -1, +2, -2, ... as C13 words it,
\* for every x
Offset(x) == IF x % 2 = 0 THEN x \div 2 ELSE 0 - ((x - 1) \div 2)

\* The nodes that C13 names for node i of group 1: those of group 2 at the
\* first k_out offsets from the counterpart of i, wrapped modulo the group
\* size.  This is the claim's set; the node the code links to is LinkTarget.
Counterparts(i) ==
  {GroupSize + ((i + Offset(x) + GroupSize) % GroupSize) : x \in 1..gargs.k_out}

\* create_network.py:51-52: the social_identity of node v of G at the
\* return: 0 for the keys below len(G1.nodes), 1 for the next len(G2.nodes)
\* keys, and no attribute (-1) for a node that is none of the keys
GroupAt(v) ==
  IF v \in DOMAIN NodeGroups(GG, G1, G2) THEN NodeGroups(GG, G1, G2)[v] ELSE -1

\* The neighbours of node v in the graph G that are of the other group:
\* v and the neighbour both have a social_identity, and the two differ
InterNeighbours(v) ==
  {w \in GG.nodes : /\ HasEdge(GG, v, w)
                    /\ GroupAt(v) # -1
                    /\ GroupAt(w) # -1
                    /\ GroupAt(v) # GroupAt(w)}

\* The generator has returned for a valid configuration without rewiring
\* and with 0 <= k_out <= n/2
ReturnedUnrewired ==
  /\ gpc = "done"
  /\ prev = <<>>
  /\ ValidConfiguration
  /\ gargs.p = RatInt(0)
  /\ gargs.k_out <= GroupSize

\* C13: without rewiring and with 0 <= k_out <= n/2, every node i of group 1
\* is linked to exactly the k_out nodes of group 2 at the first k_out offsets
\* of the pattern 0, +1, -1, +2, -2, ... from its counterpart; every node of
\* either group has k_out inter-group neighbours, and there are (n/2) * k_out
\* inter-group edges.
C13_InterGroupLinks ==
  ReturnedUnrewired =>
    /\ \A i \in 0..(GroupSize - 1) :
         /\ InterNeighbours(i) = Counterparts(i)
         /\ Cardinality(InterNeighbours(i)) = gargs.k_out
    /\ \A v \in 0..(gargs.n_agents - 1) :
         Cardinality(InterNeighbours(v)) = gargs.k_out
    /\ Cardinality({e \in GG.edges : \E v \in e : \E w \in InterNeighbours(v) : e = {v, w}})
         = GroupSize * gargs.k_out

\* create_network.py:40, 95, 114: the generator is in a retry loop
InLoop == gpc \in {"oddloop", "rewireloop", "linkloop"}

\* create_network.py:89, 110: the node a retry loop of an in-group
\* generator rewires from, and the other end of the edge it may replace
Origin == IF gpc = "oddloop" THEN loc.m ELSE loc.u

OriginalTarget ==
  IF gpc = "oddloop" THEN (loc.m + gargs.k_in \div 2 + 1) % GroupSize
  ELSE (loc.u + loc.j) % GroupSize

\* create_network.py:43-48: the edges the loop of a link can draw, and those
\* of them that are neither a self-loop nor in G
LinkCandidates ==
  {<<loc.edgefrom, w>> : w \in NodeSet(G2)} \cup {<<w, loc.edgeto>> : w \in NodeSet(G1)}

Admissible == {c \in LinkCandidates : c[1] # c[2] /\ ~HasEdge(GG, c[1], c[2])}

\* An in-group loop is left with the edge replaced by a new one
LeftByRewiring ==
  \E w \in 0..(GroupSize - 1) :
    /\ w # Origin
    /\ ~HasEdge(Gin, Origin, w)
    /\ HasEdge(Gin, Origin, OriginalTarget)
    /\ Gin'.edges = (Gin.edges \ {{Origin, OriginalTarget}}) \cup {{Origin, w}}

\* An in-group loop is left with the attempt abandoned
LeftByAbandoning ==
  /\ Degree(Gin, Origin) >= GroupSize - 1
  /\ Gin'.edges = Gin.edges
  /\ HasEdge(Gin', Origin, OriginalTarget)

\* The loop of a link is left with a new link made
LeftByLinking ==
  \E c \in Admissible : GG'.edges = GG.edges \cup {{c[1], c[2]}}

\* C14: every retry loop is left in the end; an in-group loop is left by
\* putting an edge that is neither a self-loop nor a duplicate in place of
\* the removed one, or by abandoning the attempt when the degree of the
\* origin is at least n - 1, the original edge still being there; the loop
\* of a link is left by adding such an edge, and it always has one to add.
C14_RetryLoopsExit ==
  /\ InLoop ~> ~InLoop
  /\ [][(InLoop /\ ~InLoop') =>
          IF gpc = "linkloop" THEN LeftByLinking
          ELSE LeftByRewiring \/ LeftByAbandoning]_vars
  /\ [](gpc = "linkloop" => Admissible # {})

====
